---------------------------- MODULE Spec2Model ----------------------------
(***************************************************************************)
(* The interaction layer of the portfolio page (src/main.js) as a state    *)
(* machine.  The script is one function that runs its eleven behaviours    *)
(* in source order when the page has loaded (pc walks through them), and   *)
(* from then on the page reacts to the events the browser delivers:        *)
(* clicks, scroll events, observer callbacks, timers, animation frames.    *)
(*                                                                         *)
(* The markup is not part of src/; the page a specification starts from    *)
(* is drawn from small sets of the elements the selectors of the script    *)
(* look for.  Time is kept in milliseconds; a timer fires exactly when     *)
(* its delay has run out.                                                  *)
(***************************************************************************)
EXTENDS Integers, Sequences, FiniteSets, TLC

(***************************************************************************)
(* Bounds of the model.                                                    *)
(***************************************************************************)
MaxLinks == 2
MaxFragment == 2     \* longest fragment of an href, longest id
MaxAnchors == 2      \* anchors on a page
MaxIds == 2          \* ids on a page
MaxOvershoot == 1    \* scroll offsets beyond ScrollRange, in steps of ScrollRange
MaxQueue == 3        \* entries an observer holds before its callback runs
MaxSections == 2     \* section[id] elements
MaxNavLinks == 2     \* .navbar__link elements
MaxWrappers == 2     \* .animate-wrapper elements
MaxImages == 2       \* lazy images
MaxBlobs == 4        \* .hero__blob elements
MaxGradients == 2    \* .bg-layers__gradient elements
MaxRaf == 2          \* animation frame requests pending at a time
MaxText == 2         \* characters of the tagline's text in the markup
MaxClock == 3000     \* ms the typing clocks count up to
MaxButtons == 1      \* ripple buttons
MaxClicks == 3       \* clicks on a button
MaxCards == 1        \* .project-card elements
MaxBurst == 3        \* scroll events counted in a burst
MaxTiltTimers == 2   \* pending reset timers of the cards
MaxNavQueue == 2     \* entries the active-nav observer queues for one call
MaxOtherMag == 1     \* magnetic targets that are not nav links

(***************************************************************************)
(* Constants of the program.                                               *)
(***************************************************************************)
ScrollRange == 300       \* line 108
ScrolledAfter == 50      \* line 112
DebounceWait == 8        \* line 115
TypeSpeed == 42          \* line 198: ms per character
StartDelay == 600        \* line 218
Dwell == 2200            \* line 210
TiltSettle == 400        \* line 287
DefaultSpeed == 20       \* line 167: 0.02, in 1/1000
FirstGradientSpeed == 18 \* line 173: 0.018, in 1/1000
MAX_DEG == 4         \* line 271
Strength10 == 3          \* line 302: STRENGTH 0.3, in 1/10

\* No timer is pending; a clock that has not been started; a style not set.
NoTimer == 0 - 1
NoClock == 0 - 1
Unset == 0 - 1

VARIABLES
    pc,              \* the behaviour the script is about to run, or "run"
    motionOK,        \* line 24: the reduced-motion preference is not set
    scriptError,     \* an uncaught exception ended the script
    \* 1. mobile menu
    hasToggle,       \* .navbar__toggle exists
    hasMenu,         \* #mobile-menu exists
    mobileLinks,     \* number of .navbar__mobile-link elements in the menu
    ariaExpanded,    \* the toggle's aria-expanded attribute
    menuHidden,      \* the menu's hidden property
    toggleActive,    \* the toggle carries is-active
    toggleListener,  \* the click listener of line 39 is registered
    linkListeners,   \* the mobile links with the click listener of line 48
    menuHist,        \* the last two menu clicks, each with the state before it
    \* 2. smooth scrolling
    pageIds,         \* the ids that elements of the page carry
    anchors,         \* the hrefs of the a[href^="#"] elements
    anchorListeners, \* the anchors with the click listener of line 60
    lastClick,       \* what the last click on an anchor did
    \* 4. navbar scroll intensity
    hasNavbar,       \* .navbar exists
    scrollY,         \* window.scrollY
    navScroll,       \* --nav-scroll on the navbar, in 1/300, or Unset
    navScrolled,     \* the navbar carries navbar--scrolled
    navbarListener,  \* the debounced scroll listener of line 115 is registered
    debounceTimer,   \* ms left of debounce's pending timer, NoTimer if none
    lastUpdateY,     \* <<the scroll offset the last navbar update read>>
    sinceScroll,     \* ms since the last scroll event the navbar's listener got
    burstScrolls,    \* scroll events of the burst that one belongs to
    burstUpdates,    \* runs of update since that scroll event
    updateAfter,     \* sinceScroll when debounce's timer last ran update
    \* 3. active nav link
    sections,        \* the ids of the section[id] elements
    navLinks,        \* the .navbar__link elements: link -> href
    navActive,       \* the nav links that carry is-active
    navObserved,     \* the sections the observer of line 78 observes
    navQueue,        \* its queued entries
    navLast,         \* section -> what the observer last reported of it
    navBatch,        \* the batch its callback was last called with
    navInitial,      \* the nav links that carry is-active in the markup
    navActivated,    \* whether the callback has had an intersecting entry
    \* 5. section reveal
    wrappers,        \* number of .animate-wrapper elements
    visible,         \* the wrappers that carry is-visible
    revealObserved,  \* the wrappers the observer of line 132 observes
    revealQueue,     \* its queued entries
    revealLast,      \* wrapper -> what the observer last reported of it
    revealReported,  \* the wrappers the callback was given as intersecting
    revealRuns,      \* wrapper -> runs of the callback that revealed it
    \* 11. lazy images
    images,          \* number of .project-card__image[data-src] elements
    dataSrc,         \* image -> its data-src attribute, <<"none">> if it has none
    imgSrc,          \* image -> its src
    lazyObserved,    \* the images the observer of line 330 observes
    lazyQueue,       \* its queued entries
    lazyLast,        \* image -> what the observer last reported of it
    srcAssigned,     \* image -> the values the callback assigned to its src
    \* 6. parallax
    blobs,           \* number of .hero__blob elements
    gradients,       \* number of .bg-layers__gradient elements
    blobTransform,   \* blob -> <<its inline translation, in 1/1000 px>>, or <<>>
    gradTransform,   \* gradient -> <<its inline translation, in 1/1000 px>>, or <<>>
    parallaxListener,\* the scroll listener of line 179 is registered
    rafQueue,        \* parallax updates requested for the next animation frame
    frameUpdates,    \* parallax updates the last animation frame ran
    \* 7. typing effect
    hasTagline,      \* .hero__tagline exists
    hasHero,         \* the tagline has an ancestor .hero
    origText,        \* the tagline's text content in the markup
    taglineText,     \* the tagline's text content
    fullText,        \* initTyping's fullText
    charIndex,       \* initTyping's charIndex
    typingActive,    \* the tagline carries typing-active
    typingDone,      \* the tagline carries typing-done
    heroObserved,    \* the elements the observer of line 215 observes
    heroQueue,       \* its queued entries
    heroLast,        \* element -> what the observer last reported of it
    typeTimers,      \* initTyping's pending timers: <<function, ms left>>
    sinceStart,      \* ms since the observer's callback set off the typing
    sinceReported,   \* ms since a callback was first given an intersecting entry
    sinceLastChar,   \* ms since the last character was appended
    typingStarts,    \* calls of setTimeout(type, 600) by the callback
    doneAfter,       \* sinceLastChar when typing-done was added
    \* 8. button ripple
    buttons,         \* number of .hero__btn, .contact__submit elements
    rippleListeners, \* the buttons with the click listener of line 243
    btnStyled,       \* the buttons given position and overflow
    ripples,         \* button -> the .ripple elements inside it
    rippleClicks,    \* button -> clicks on it
    rippleEnded,     \* button -> ripples of it whose animation has ended
    \* 9. card tilt
    cards,           \* number of .project-card elements
    tiltListeners,   \* the cards with the listeners of lines 274 and 283
    cardTransform,   \* card -> its inline transform
    cardTransition,  \* card -> its inline transition is set
    tiltTimers,      \* pending reset timers: <<card, ms left>>
    tiltOver,        \* the card the pointer is over, 0 for none
    sinceLeave,      \* card -> ms since its last mouseleave
    \* 10. magnetic hover
    otherMag,        \* number of .project-card__link, .footer__social-link elements
    magListeners,    \* the targets with the listeners of lines 305 and 314
    magTransform,    \* target -> its inline transform
    pointer          \* where the mouse pointer is

globalVars == <<pc, motionOK, scriptError>>
menuVars == <<hasToggle, hasMenu, mobileLinks, ariaExpanded, menuHidden,
              toggleActive, toggleListener, linkListeners, menuHist>>

anchorVars == <<pageIds, anchors, anchorListeners, lastClick>>
navbarClocks == <<sinceScroll, burstScrolls, burstUpdates, updateAfter>>
navbarVars == <<hasNavbar, scrollY, navScroll, navScrolled, navbarListener,
                debounceTimer, lastUpdateY, navbarClocks>>

activeNavVars ==
    <<sections, navLinks, navActive, navObserved, navQueue, navLast, navBatch,
      navInitial, navActivated>>
revealVars == <<wrappers, visible, revealObserved, revealQueue, revealLast,
                revealReported, revealRuns>>
lazyVars == <<images, dataSrc, imgSrc, lazyObserved, lazyQueue, lazyLast,
              srcAssigned>>
parallaxVars == <<blobs, gradients, blobTransform, gradTransform,
                  parallaxListener, rafQueue, frameUpdates>>
typingClocks == <<sinceStart, sinceReported, sinceLastChar, typingStarts>>
typingVars == <<hasTagline, hasHero, origText, taglineText, fullText, charIndex,
                typingActive, typingDone, heroObserved, heroQueue, heroLast,
                typeTimers, typingClocks, doneAfter>>
rippleVars == <<buttons, rippleListeners, btnStyled, ripples, rippleClicks,
                rippleEnded>>
tiltVars == <<cards, tiltListeners, cardTransform, cardTransition, tiltTimers,
              tiltOver, sinceLeave>>
magneticVars == <<otherMag, magListeners, magTransform, pointer>>

vars == <<globalVars, menuVars, anchorVars, navbarVars, activeNavVars,
        revealVars, lazyVars, parallaxVars, typingVars, rippleVars, tiltVars,
        magneticVars>>

exceptMenu == <<anchorVars, navbarVars, activeNavVars, revealVars, lazyVars,
        parallaxVars, typingVars, rippleVars, tiltVars, magneticVars>>
exceptAnchors == <<menuVars, navbarVars, activeNavVars, revealVars, lazyVars,
        parallaxVars, typingVars, rippleVars, tiltVars, magneticVars>>
exceptNavbar == <<menuVars, anchorVars, activeNavVars, revealVars, lazyVars,
        parallaxVars, typingVars, rippleVars, tiltVars, magneticVars>>
exceptActiveNav == <<menuVars, anchorVars, navbarVars, revealVars, lazyVars,
        parallaxVars, typingVars, rippleVars, tiltVars, magneticVars>>
exceptReveal == <<menuVars, anchorVars, navbarVars, activeNavVars, lazyVars,
        parallaxVars, typingVars, rippleVars, tiltVars, magneticVars>>
exceptLazy == <<menuVars, anchorVars, navbarVars, activeNavVars, revealVars,
        parallaxVars, typingVars, rippleVars, tiltVars, magneticVars>>
exceptParallax == <<menuVars, anchorVars, navbarVars, activeNavVars,
        revealVars, lazyVars, typingVars, rippleVars, tiltVars, magneticVars>>
exceptTyping == <<menuVars, anchorVars, navbarVars, activeNavVars,
        revealVars, lazyVars, parallaxVars, rippleVars, tiltVars,
        magneticVars>>
exceptRipple == <<menuVars, anchorVars, navbarVars, activeNavVars,
        revealVars, lazyVars, parallaxVars, typingVars, tiltVars,
        magneticVars>>
exceptTilt == <<menuVars, anchorVars, navbarVars, activeNavVars, revealVars,
        lazyVars, parallaxVars, typingVars, rippleVars, magneticVars>>
exceptMagnetic == <<menuVars, anchorVars, navbarVars, activeNavVars,
        revealVars, lazyVars, parallaxVars, typingVars, rippleVars, tiltVars>>

(***************************************************************************)
(* The script's behaviours in source order.                                *)
(***************************************************************************)
Behaviours ==
    <<"initMobileMenu", "smoothScroll", "initActiveNav", "initNavbarScroll",
      "initReveal", "initParallax", "initTyping", "initRipple", "initTilt",
      "initMagnetic", "initLazyImages", "run">>

RECURSIVE IndexOf(_, _, _)
IndexOf(seq, x, i) ==
    IF i > Len(seq) THEN 0 ELSE IF seq[i] = x THEN i ELSE IndexOf(seq, x, i + 1)

NextBehaviour(b) == Behaviours[IndexOf(Behaviours, b, 1) + 1]

\* The script has come to its end (or was ended by an exception): the page
\* now only reacts to events.
Loaded == pc \in {"run", "aborted"}

\* A behaviour returns normally: the script goes on with the next one.
Return(b) == pc = b /\ pc' = NextBehaviour(b) /\ UNCHANGED <<motionOK, scriptError>>

\* JavaScript's String(b) of a boolean.
String(b) == IF b THEN "true" ELSE "false"

\* The last `n` entries of a history.
Last(seq, n) == IF Len(seq) <= n THEN seq ELSE SubSeq(seq, Len(seq) - n + 1, Len(seq))

(***************************************************************************)
(* 1. MOBILE MENU TOGGLE                                                   *)
(***************************************************************************)
\* The markup of the menu: a two-valued state, open or closed, shown by
\* aria-expanded on the toggle, hidden on the menu and is-active on the toggle.
MenuMarkup ==
    /\ hasToggle \in BOOLEAN
    /\ hasMenu \in BOOLEAN
    /\ mobileLinks \in (IF hasMenu THEN 0..MaxLinks ELSE {0})
    /\ \E open \in BOOLEAN :
          /\ ariaExpanded = (IF hasToggle THEN String(open) ELSE "none")
          /\ toggleActive = (hasToggle /\ open)
          /\ menuHidden = (IF hasMenu THEN ~open ELSE TRUE)
    /\ toggleListener = FALSE
    /\ linkListeners = {}
    /\ menuHist = <<>>

\* initMobileMenu with && for the || of line 37: with one of the two elements
\* missing the script goes on to line 39 or 47 and ends there with a
\* TypeError, the toggle's listener added if the toggle is the one there.
initMobileMenuNeedsOne ==
    /\ pc = "initMobileMenu"
    /\ UNCHANGED motionOK
    /\ IF ~hasToggle /\ ~hasMenu
          THEN /\ pc' = NextBehaviour("initMobileMenu")
               /\ UNCHANGED <<scriptError, toggleListener, linkListeners>>
       ELSE IF ~hasToggle \/ ~hasMenu
          THEN /\ pc' = "aborted"
               /\ scriptError' = TRUE
               /\ toggleListener' = hasToggle
               /\ UNCHANGED linkListeners
       ELSE /\ pc' = NextBehaviour("initMobileMenu")
            /\ UNCHANGED scriptError
            /\ toggleListener' = TRUE
            /\ linkListeners' = 1..mobileLinks
    /\ UNCHANGED <<hasToggle, hasMenu, mobileLinks, ariaExpanded, menuHidden,
                   toggleActive, menuHist>>
    /\ UNCHANGED exceptMenu

initMobileMenu ==
    /\ Return("initMobileMenu")
    /\ IF ~hasToggle \/ ~hasMenu
          THEN UNCHANGED <<toggleListener, linkListeners>>
          ELSE /\ toggleListener' = TRUE
               /\ linkListeners' = 1..mobileLinks
    /\ UNCHANGED <<hasToggle, hasMenu, mobileLinks, ariaExpanded, menuHidden,
                   toggleActive, menuHist>>
    /\ UNCHANGED exceptMenu

\* The listener of lines 39-44, with the toggle's inverted visibility as a
\* slip of the assignment of line 42.
toggleClickHidesOpen ==
    LET isOpen == ariaExpanded = "true" IN
    /\ ariaExpanded' = String(~isOpen)
    /\ menuHidden' = ~isOpen
    /\ toggleActive' = ~toggleActive

\* The listener of lines 39-44 without the classList.toggle of line 43.
toggleClickKeepsClass ==
    LET isOpen == ariaExpanded = "true" IN
    /\ ariaExpanded' = String(~isOpen)
    /\ menuHidden' = isOpen
    /\ UNCHANGED toggleActive

toggleClick ==
    LET isOpen == ariaExpanded = "true" IN
    /\ ariaExpanded' = String(~isOpen)
    /\ menuHidden' = isOpen
    /\ toggleActive' = ~toggleActive

\* The listener of lines 48-52, with classList.toggle in place of remove.
linkClickTogglesClass ==
    /\ ariaExpanded' = "false"
    /\ menuHidden' = TRUE
    /\ toggleActive' = ~toggleActive

linkClick ==
    /\ ariaExpanded' = "false"
    /\ menuHidden' = TRUE
    /\ toggleActive' = FALSE

\* The user clicks the toggle.
ToggleClick ==
    /\ Loaded
    /\ hasToggle
    /\ IF toggleListener
          THEN toggleClick
          ELSE UNCHANGED <<ariaExpanded, menuHidden, toggleActive>>
    /\ menuHist' = Last(Append(menuHist,
                        [ev |-> "toggle", aria |-> ariaExpanded,
                         hidden |-> menuHidden, active |-> toggleActive]), 2)
    /\ UNCHANGED <<hasToggle, hasMenu, mobileLinks, toggleListener, linkListeners>>
    /\ UNCHANGED <<globalVars, exceptMenu>>

\* The user clicks mobile link l.
MobileLinkClick(l) ==
    /\ Loaded
    /\ hasMenu
    /\ l \in 1..mobileLinks
    /\ IF l \in linkListeners
          THEN linkClick
          ELSE UNCHANGED <<ariaExpanded, menuHidden, toggleActive>>
    /\ menuHist' = Last(Append(menuHist,
                        [ev |-> "link", aria |-> ariaExpanded,
                         hidden |-> menuHidden, active |-> toggleActive]), 2)
    /\ UNCHANGED <<hasToggle, hasMenu, mobileLinks, toggleListener, linkListeners>>
    /\ UNCHANGED <<globalVars, exceptMenu>>

(***************************************************************************)
(* 2. SMOOTH SCROLLING (for all anchor links)                              *)
(***************************************************************************)
\* Strings are sequences of characters; a letter and a digit are enough to
\* tell the ids a CSS selector can name from those it cannot.
Letters == {"a"}
Digits == {"1"}
Chars == Letters \cup Digits

RECURSIVE StringsUpTo(_)
StringsUpTo(n) ==
    IF n = 0 THEN {<<>>}
    ELSE LET shorter == StringsUpTo(n - 1) IN
         shorter \cup {Append(s, c) : s \in shorter, c \in Chars}

Fragments == StringsUpTo(MaxFragment)
Ids == Fragments \ {<<>>}
Hrefs == {<<"#">> \o f : f \in Fragments}

\* The markup: some elements with ids, some in-page anchors.
AnchorMarkup ==
    /\ pageIds \in {I \in SUBSET Ids : Cardinality(I) <= MaxIds}
    /\ anchors \in {A \in SUBSET Hrefs : Cardinality(A) <= MaxAnchors}
    /\ anchorListeners = {}
    /\ lastClick = [href |-> <<>>, prevented |-> FALSE, scrolls |-> <<>>,
                    threw |-> FALSE]

NoMenu == MenuMarkup /\ ~hasToggle /\ ~hasMenu /\ menuHidden

NoAnchors ==
    /\ pageIds = {}
    /\ anchors = {}
    /\ anchorListeners = {}
    /\ lastClick = [href |-> <<>>, prevented |-> FALSE, scrolls |-> <<>>,
                    threw |-> FALSE]

\* Whether `name` is a CSS identifier: it is not empty and does not start
\* with a digit.
IsIdentifier(name) == name # <<>> /\ name[1] \notin Digits

\* document.querySelector(selector) for a selector that starts with "#":
\* an id selector when what follows is an identifier, and a SyntaxError
\* otherwise.
querySelector(selector) ==
    LET name == Tail(selector) IN
    IF ~IsIdentifier(name) THEN [threw |-> TRUE, found |-> FALSE, el |-> <<>>]
    ELSE IF name \in pageIds THEN [threw |-> FALSE, found |-> TRUE, el |-> name]
    ELSE [threw |-> FALSE, found |-> FALSE, el |-> <<>>]

smoothScroll ==
    /\ Return("smoothScroll")
    /\ anchorListeners' = anchors
    /\ UNCHANGED <<pageIds, anchors, lastClick>>
    /\ UNCHANGED exceptAnchors

\* The listener of lines 60-67 on the anchor with href targetId: what the
\* click has done when the listener has ended.
anchorClick(targetId) ==
    IF targetId = <<"#">>
       THEN [href |-> targetId, prevented |-> FALSE, scrolls |-> <<>>, threw |-> FALSE]
    ELSE LET target == querySelector(targetId) IN
         IF target.threw
            THEN [href |-> targetId, prevented |-> FALSE, scrolls |-> <<>>,
                  threw |-> TRUE]
         ELSE IF ~target.found
            THEN [href |-> targetId, prevented |-> FALSE, scrolls |-> <<>>,
                  threw |-> FALSE]
         ELSE [href |-> targetId, prevented |-> TRUE,
               scrolls |-> <<[el |-> target.el,
                              behavior |-> IF motionOK THEN "smooth" ELSE "auto"]>>,
               threw |-> FALSE]

\* The user clicks the anchor with href h.
AnchorClick(h) ==
    /\ Loaded
    /\ h \in anchors
    /\ lastClick' = IF h \in anchorListeners
                       THEN anchorClick(h)
                       ELSE [href |-> h, prevented |-> FALSE, scrolls |-> <<>>,
                             threw |-> FALSE]
    /\ UNCHANGED <<pageIds, anchors, anchorListeners>>
    /\ UNCHANGED <<globalVars, exceptAnchors>>

(***************************************************************************)
(* 0. HELPERS                                                              *)
(***************************************************************************)
Min(a, b) == IF a < b THEN a ELSE b
Max(a, b) == IF a > b THEN a ELSE b

\* clamp with the two bounds taken the wrong way round.
clampSwapped(val, min, max) == Min(min, Max(max, val))

clamp(val, min, max) == Max(min, Min(max, val))

(***************************************************************************)
(* 4. NAVBAR SCROLL INTENSITY                                              *)
(***************************************************************************)
\* The offsets the window can be scrolled to: the edges of the navbar's
\* range, offsets inside it, and offsets beyond both ends.
ScrollOffsets ==
    {0 - 30, 0, 1, ScrolledAfter, ScrolledAfter + 1, ScrollRange - 1, ScrollRange}
        \cup {ScrollRange + k * ScrollRange : k \in 1..MaxOvershoot}

NavbarMarkup ==
    /\ hasNavbar \in BOOLEAN
    /\ scrollY \in ScrollOffsets
    /\ navScroll = Unset
    /\ navScrolled = FALSE
    /\ navbarListener = FALSE
    /\ debounceTimer = NoTimer
    /\ lastUpdateY = <<>>
    /\ sinceScroll = NoClock
    /\ burstScrolls = 0
    /\ burstUpdates = 0
    /\ updateAfter = NoClock

NoNavbar ==
    /\ hasNavbar = FALSE
    /\ scrollY = 0
    /\ navScroll = Unset
    /\ navScrolled = FALSE
    /\ navbarListener = FALSE
    /\ debounceTimer = NoTimer
    /\ lastUpdateY = <<>>
    /\ sinceScroll = NoClock
    /\ burstScrolls = 0
    /\ burstUpdates = 0
    /\ updateAfter = NoClock

\* update of lines 106-113.  progress is scrollY / 300 clamped to [0, 1];
\* the model keeps 300 * progress, which is scrollY clamped to [0, 300].
update ==
    LET progress == clamp(scrollY, 0, ScrollRange) IN
    /\ navScroll' = progress
    /\ navScrolled' = (scrollY > ScrolledAfter)
    /\ lastUpdateY' = <<scrollY>>

\* initNavbarScroll without the call of update of line 116.
initNavbarScrollNoUpdate ==
    /\ Return("initNavbarScroll")
    /\ IF ~hasNavbar
          THEN UNCHANGED navbarListener
          ELSE navbarListener' = TRUE
    /\ UNCHANGED <<hasNavbar, scrollY, navScroll, navScrolled, lastUpdateY,
                   debounceTimer, navbarClocks>>
    /\ UNCHANGED exceptNavbar

initNavbarScroll ==
    /\ Return("initNavbarScroll")
    /\ IF ~hasNavbar
          THEN UNCHANGED <<navScroll, navScrolled, lastUpdateY, navbarListener>>
          ELSE /\ navbarListener' = TRUE
               /\ update
    /\ UNCHANGED <<hasNavbar, scrollY, debounceTimer, navbarClocks>>
    /\ UNCHANGED exceptNavbar

\* The function debounce returns without the clearTimeout of line 18, as far
\* as one timer shows it: the timer that is pending runs on, and the call
\* sets none of its own.
debounceKeepsTimer(wait) ==
    debounceTimer' = IF debounceTimer = NoTimer THEN wait ELSE debounceTimer

\* The function debounce returns (lines 16-20), called: the pending timer is
\* cleared and a new one is set.
debounce(wait) == debounceTimer' = wait

\* debounce's timer runs out: fn is called.
DebounceTimeout ==
    /\ Loaded
    /\ debounceTimer = 0
    /\ debounceTimer' = NoTimer
    /\ update
    /\ burstUpdates' = Min(burstUpdates + 1, MaxBurst)
    /\ updateAfter' = sinceScroll
    /\ UNCHANGED <<hasNavbar, scrollY, navbarListener, sinceScroll, burstScrolls>>
    /\ UNCHANGED <<globalVars, exceptNavbar>>

(***************************************************************************)
(* IntersectionObserver.  The browser appends an entry for an observed     *)
(* target to the observer's queue each time the target starts or stops     *)
(* intersecting (the first entry of a target reports where it is), and     *)
(* later calls the callback with all the entries queued since its last     *)
(* call.                                                                   *)
(***************************************************************************)
Report(b) == IF b THEN "in" ELSE "out"

\* The browser may queue the entry (t, b) of an observer.
CanQueue(observed, queue, last, t, b) ==
    /\ Loaded
    /\ t \in observed
    /\ last[t] # Report(b)
    /\ Len(queue) < MaxQueue

Entry(t, b) == [target |-> t, isIntersecting |-> b]

\* The targets of the intersecting entries of a batch.
Intersecting(entries) ==
    {entries[i].target : i \in {j \in 1..Len(entries) : entries[j].isIntersecting}}

(***************************************************************************)
(* 3. ACTIVE NAV LINK ON SCROLL                                            *)
(***************************************************************************)
SectionIds == {[i \in 1..n |-> "a"] : n \in 1..MaxSections}

ActiveNavMarkup ==
    /\ sections \in SUBSET SectionIds
    /\ \E n \in 0..MaxNavLinks : navLinks \in [1..n -> {<<"#">> \o id : id \in SectionIds}]
    /\ navActive \in SUBSET DOMAIN navLinks
    /\ navInitial = navActive
    /\ navObserved = {}
    /\ navQueue = <<>>
    /\ navLast = [sec \in SectionIds |-> "none"]
    /\ navBatch = <<>>
    /\ navActivated = FALSE

NoActiveNav ==
    /\ sections = {}
    /\ navLinks = <<>>
    /\ navActive = {}
    /\ navInitial = {}
    /\ navObserved = {}
    /\ navQueue = <<>>
    /\ navLast = [sec \in SectionIds |-> "none"]
    /\ navBatch = <<>>
    /\ navActivated = FALSE

initActiveNav ==
    /\ Return("initActiveNav")
    /\ IF sections = {} \/ navLinks = <<>>
          THEN UNCHANGED navObserved
          ELSE navObserved' = sections
    /\ UNCHANGED <<sections, navLinks, navActive, navQueue, navLast, navBatch,
                   navInitial, navActivated>>
    /\ UNCHANGED exceptActiveNav

\* The links for which line 86 holds: href === "#" + id.
LinksTo(id) == {i \in DOMAIN navLinks : navLinks[i] = <<"#">> \o id}

\* The callback of lines 79-91 with the toggle of line 84 as an add: a link
\* that was active stays so.
RECURSIVE navCallbackAddsOnly(_, _, _)
navCallbackAddsOnly(entries, i, active) ==
    IF i > Len(entries) THEN active
    ELSE IF ~entries[i].isIntersecting
            THEN navCallbackAddsOnly(entries, i + 1, active)
    ELSE navCallbackAddsOnly(entries, i + 1, active \cup LinksTo(entries[i].target))

\* The callback of lines 79-91 without the test of line 81: every entry,
\* intersecting or not, sets the links.
RECURSIVE navCallbackOnExit(_, _, _)
navCallbackOnExit(entries, i, active) ==
    IF i > Len(entries) THEN active
    ELSE navCallbackOnExit(entries, i + 1,
            IF entries[i].isIntersecting THEN LinksTo(entries[i].target) ELSE {})

\* The callback of lines 79-91 on the entries from index i on, given the
\* links that carry is-active so far: each intersecting entry sets, for every
\* link, is-active to whether its href is "#" + the section's id.
RECURSIVE navCallback(_, _, _)
navCallback(entries, i, active) ==
    IF i > Len(entries) THEN active
    ELSE IF ~entries[i].isIntersecting THEN navCallback(entries, i + 1, active)
    ELSE navCallback(entries, i + 1, LinksTo(entries[i].target))

\* A section enters (b) or leaves (~b) the band of line 92.
NavEntry(sec, b) ==
    /\ CanQueue(navObserved, navQueue, navLast, sec, b)
    /\ Len(navQueue) < MaxNavQueue
    /\ navQueue' = Append(navQueue, Entry(sec, b))
    /\ navLast' = [navLast EXCEPT ![sec] = Report(b)]
    /\ UNCHANGED <<sections, navLinks, navActive, navObserved, navBatch,
                   navInitial, navActivated>>
    /\ UNCHANGED <<globalVars, exceptActiveNav>>

\* The browser calls the active-nav observer's callback.
NavNotify ==
    /\ Loaded
    /\ navQueue # <<>>
    /\ navActive' = navCallback(navQueue, 1, navActive)
    /\ navBatch' = navQueue
    /\ navActivated' = (navActivated \/ Intersecting(navQueue) # {})
    /\ navQueue' = <<>>
    /\ UNCHANGED <<sections, navLinks, navObserved, navLast, navInitial>>
    /\ UNCHANGED <<globalVars, exceptActiveNav>>

(***************************************************************************)
(* 5. SECTION REVEAL (fade-up on enter)                                    *)
(***************************************************************************)
Wrappers == 1..MaxWrappers

RevealMarkup ==
    /\ wrappers \in 0..MaxWrappers
    /\ visible = {}
    /\ revealObserved = {}
    /\ revealQueue = <<>>
    /\ revealLast = [el \in Wrappers |-> "none"]
    /\ revealReported = {}
    /\ revealRuns = [el \in Wrappers |-> 0]

NoReveal == RevealMarkup /\ wrappers = 0

initReveal ==
    /\ Return("initReveal")
    /\ IF ~motionOK
          THEN /\ visible' = visible \cup 1..wrappers
               /\ UNCHANGED revealObserved
          ELSE /\ revealObserved' = 1..wrappers
               /\ UNCHANGED visible
    /\ UNCHANGED <<wrappers, revealQueue, revealLast, revealReported, revealRuns>>
    /\ UNCHANGED exceptReveal

\* The callback of lines 133-140 without its call of unobserve.
revealKeepsObserving(entries) ==
    /\ visible' = visible \cup Intersecting(entries)
    /\ UNCHANGED revealObserved

\* The callback of lines 133-140 on a batch of entries: add and unobserve
\* act on sets, so the entries' order and repetitions make no difference.
revealCallback(entries) ==
    /\ visible' = visible \cup Intersecting(entries)
    /\ revealObserved' = revealObserved \ Intersecting(entries)

\* A wrapper starts (b) or stops (~b) to show 12% of itself.
RevealEntry(el, b) ==
    /\ CanQueue(revealObserved, revealQueue, revealLast, el, b)
    /\ revealQueue' = Append(revealQueue, Entry(el, b))
    /\ revealLast' = [revealLast EXCEPT ![el] = Report(b)]
    /\ UNCHANGED <<wrappers, visible, revealObserved, revealReported, revealRuns>>
    /\ UNCHANGED <<globalVars, exceptReveal>>

\* The browser calls the reveal observer's callback.
RevealNotify ==
    /\ Loaded
    /\ revealQueue # <<>>
    /\ revealCallback(revealQueue)
    /\ revealQueue' = <<>>
    /\ revealReported' = revealReported \cup Intersecting(revealQueue)
    /\ revealRuns' = [el \in Wrappers |->
                        IF el \in Intersecting(revealQueue)
                           THEN Min(revealRuns[el] + 1, 2) ELSE revealRuns[el]]
    /\ UNCHANGED <<wrappers, revealLast>>
    /\ UNCHANGED <<globalVars, exceptReveal>>

(***************************************************************************)
(* 11. LAZY LOAD PROJECT IMAGES                                            *)
(***************************************************************************)
Images == 1..MaxImages

\* The deferred source the markup gives image img.
Deferred(img) == <<"url", img>>

LazyMarkup ==
    /\ images \in 0..MaxImages
    /\ dataSrc = [img \in Images |-> IF img <= images THEN Deferred(img) ELSE <<"none">>]
    /\ imgSrc = [img \in Images |-> <<"none">>]
    /\ lazyObserved = {}
    /\ lazyQueue = <<>>
    /\ lazyLast = [img \in Images |-> "none"]
    /\ srcAssigned = [img \in Images |-> <<>>]

NoLazy == LazyMarkup /\ images = 0

initLazyImages ==
    /\ Return("initLazyImages")
    /\ IF images = 0
          THEN UNCHANGED lazyObserved
          ELSE lazyObserved' = 1..images
    /\ UNCHANGED <<images, dataSrc, imgSrc, lazyQueue, lazyLast, srcAssigned>>
    /\ UNCHANGED exceptLazy

\* img.dataset.src, assigned to img.src: a missing attribute reads as
\* undefined, which src takes as the string "undefined".
DatasetSrc(attr) == IF attr = <<"none">> THEN <<"undefined">> ELSE attr

\* The callback of lines 331-339 on the entries from index i on, given the
\* images' state so far: [data, src, observed, assigned].
RECURSIVE lazyCallback(_, _, _)
lazyCallback(entries, i, st) ==
    IF i > Len(entries) THEN st
    ELSE IF ~entries[i].isIntersecting THEN lazyCallback(entries, i + 1, st)
    ELSE LET img == entries[i].target
             value == DatasetSrc(st.data[img])
         IN lazyCallback(entries, i + 1,
               [data |-> [st.data EXCEPT ![img] = <<"none">>],
                src |-> [st.src EXCEPT ![img] = value],
                observed |-> st.observed \ {img},
                assigned |-> [st.assigned EXCEPT ![img] = Last(Append(@, value), 2)]])

\* An image enters (b) or leaves (~b) the region 200px around the viewport.
LazyEntry(img, b) ==
    /\ CanQueue(lazyObserved, lazyQueue, lazyLast, img, b)
    /\ lazyQueue' = Append(lazyQueue, Entry(img, b))
    /\ lazyLast' = [lazyLast EXCEPT ![img] = Report(b)]
    /\ UNCHANGED <<images, dataSrc, imgSrc, lazyObserved, srcAssigned>>
    /\ UNCHANGED <<globalVars, exceptLazy>>

\* The browser calls the lazy observer's callback.
LazyNotify ==
    /\ Loaded
    /\ lazyQueue # <<>>
    /\ LET st == lazyCallback(lazyQueue, 1,
                    [data |-> dataSrc, src |-> imgSrc, observed |-> lazyObserved,
                     assigned |-> srcAssigned])
       IN /\ dataSrc' = st.data
          /\ imgSrc' = st.src
          /\ lazyObserved' = st.observed
          /\ srcAssigned' = st.assigned
    /\ lazyQueue' = <<>>
    /\ UNCHANGED <<images, lazyLast>>
    /\ UNCHANGED <<globalVars, exceptLazy>>

(***************************************************************************)
(* 6. PARALLAX BACKGROUND BLOBS                                            *)
(***************************************************************************)
Blobs == 1..MaxBlobs
Gradients == 1..MaxGradients

ParallaxMarkup ==
    /\ blobs \in 0..MaxBlobs
    /\ gradients \in 0..MaxGradients
    /\ blobTransform = [i \in Blobs |-> <<>>]
    /\ gradTransform = [i \in Gradients |-> <<>>]
    /\ parallaxListener = FALSE
    /\ rafQueue = 0
    /\ frameUpdates = 0

NoParallax == ParallaxMarkup /\ blobs = 0 /\ gradients = 0

\* speeds of line 161, in 1/1000.
speeds == <<30, 0 - 20, 15>>

\* speeds[i] || 0.02 for the blob at index i - 1.
BlobSpeed(i) == IF i \in DOMAIN speeds THEN speeds[i] ELSE DefaultSpeed

\* i === 0 ? 0.018 : -0.012 for the gradient at index i - 1.
GradientSpeed(i) == IF i = 1 THEN FirstGradientSpeed ELSE 0 - 12

initParallax ==
    /\ Return("initParallax")
    /\ IF ~motionOK THEN UNCHANGED parallaxListener
       ELSE IF blobs = 0 /\ gradients = 0 THEN UNCHANGED parallaxListener
       ELSE parallaxListener' = TRUE
    /\ UNCHANGED <<blobs, gradients, blobTransform, gradTransform, rafQueue,
                   frameUpdates>>
    /\ UNCHANGED exceptParallax

\* update of lines 163-177.
parallaxUpdate ==
    /\ blobTransform' = [i \in Blobs |->
          IF i <= blobs THEN <<scrollY * BlobSpeed(i)>> ELSE blobTransform[i]]
    /\ gradTransform' = [i \in Gradients |->
          IF i <= gradients THEN <<scrollY * GradientSpeed(i)>> ELSE gradTransform[i]]

\* The window is scrolled to offset y and the scroll event is dispatched to
\* the listeners of lines 115 and 179.
Scroll(y) ==
    /\ Loaded
    /\ y \in ScrollOffsets
    /\ y # scrollY
    /\ scrollY' = y
    /\ IF navbarListener
          THEN /\ debounce(DebounceWait)
               /\ sinceScroll' = 0
               /\ burstScrolls' =
                     IF sinceScroll # NoClock /\ sinceScroll < DebounceWait
                        THEN Min(burstScrolls + 1, MaxBurst) ELSE 1
               /\ burstUpdates' = 0
          ELSE UNCHANGED <<debounceTimer, sinceScroll, burstScrolls, burstUpdates>>
    /\ IF parallaxListener
          THEN rafQueue < MaxRaf /\ rafQueue' = rafQueue + 1
          ELSE UNCHANGED rafQueue
    /\ UNCHANGED <<hasNavbar, navScroll, navScrolled, navbarListener, lastUpdateY,
                   updateAfter>>
    /\ UNCHANGED <<blobs, gradients, blobTransform, gradTransform,
                   parallaxListener, frameUpdates>>
    /\ UNCHANGED <<globalVars, menuVars, anchorVars, activeNavVars, revealVars,
                   lazyVars, typingVars, rippleVars, tiltVars, magneticVars>>

\* An animation frame: the requested callbacks run, each one the update.
AnimationFrame ==
    /\ Loaded
    /\ rafQueue > 0
    /\ parallaxUpdate
    /\ frameUpdates' = rafQueue
    /\ rafQueue' = 0
    /\ UNCHANGED <<blobs, gradients, parallaxListener>>
    /\ UNCHANGED <<globalVars, exceptParallax>>

(***************************************************************************)
(* 7. TYPING EFFECT FOR HERO TAGLINE                                       *)
(***************************************************************************)
TextChars == {" ", "a", "b"}

RECURSIVE TextsUpTo(_)
TextsUpTo(n) ==
    IF n = 0 THEN {<<>>}
    ELSE LET shorter == TextsUpTo(n - 1) IN
         shorter \cup {Append(s, c) : s \in shorter, c \in TextChars}

\* String.prototype.trim: the white space at both ends is dropped.
RECURSIVE trimStart(_)
trimStart(s) == IF s # <<>> /\ s[1] = " " THEN trimStart(Tail(s)) ELSE s

RECURSIVE trimEnd(_)
trimEnd(s) ==
    IF s # <<>> /\ s[Len(s)] = " " THEN trimEnd(SubSeq(s, 1, Len(s) - 1)) ELSE s

trim(s) == trimEnd(trimStart(s))

HeroTargets == {"hero", "tagline"}

TypingMarkup ==
    /\ hasTagline \in BOOLEAN
    /\ hasHero \in (IF hasTagline THEN BOOLEAN ELSE {FALSE})
    /\ origText \in (IF hasTagline THEN TextsUpTo(MaxText) ELSE {<<>>})
    /\ taglineText = origText
    /\ fullText = <<>>
    /\ charIndex = 0
    /\ typingActive = FALSE
    /\ typingDone = FALSE
    /\ heroObserved = {}
    /\ heroQueue = <<>>
    /\ heroLast = [t \in HeroTargets |-> "none"]
    /\ typeTimers = <<>>
    /\ sinceStart = NoClock
    /\ sinceReported = NoClock
    /\ sinceLastChar = NoClock
    /\ typingStarts = 0
    /\ doneAfter = [lastChar |-> NoClock, start |-> NoClock]

NoTyping == TypingMarkup /\ hasTagline = FALSE

\* initTyping without the return of line 188.
initTypingAlways ==
    /\ Return("initTyping")
    /\ IF ~hasTagline
          THEN UNCHANGED <<taglineText, fullText, typingActive, heroObserved>>
          ELSE /\ fullText' = trim(taglineText)
               /\ taglineText' = <<>>
               /\ typingActive' = TRUE
               /\ heroObserved' = {IF hasHero THEN "hero" ELSE "tagline"}
    /\ UNCHANGED <<hasTagline, hasHero, origText, charIndex, typingDone,
                   heroQueue, heroLast, typeTimers, typingClocks, doneAfter>>
    /\ UNCHANGED exceptTyping

initTyping ==
    /\ Return("initTyping")
    /\ IF ~motionOK
          THEN UNCHANGED <<taglineText, fullText, typingActive, heroObserved>>
       ELSE IF ~hasTagline
          THEN UNCHANGED <<taglineText, fullText, typingActive, heroObserved>>
       ELSE /\ fullText' = trim(taglineText)
            /\ taglineText' = <<>>
            /\ typingActive' = TRUE
            /\ heroObserved' = {IF hasHero THEN "hero" ELSE "tagline"}
    /\ UNCHANGED <<hasTagline, hasHero, origText, charIndex, typingDone,
                   heroQueue, heroLast, typeTimers, typingClocks, doneAfter>>
    /\ UNCHANGED exceptTyping

\* setTimeout(fn, wait) of initTyping.
TypingTimer(fn, wait) == <<fn, wait>>

Without(seq, i) == SubSeq(seq, 1, i - 1) \o SubSeq(seq, i + 1, Len(seq))

\* The hero starts (b) or stops (~b) to show 30% of itself.
HeroEntry(t, b) ==
    /\ CanQueue(heroObserved, heroQueue, heroLast, t, b)
    /\ heroQueue' = Append(heroQueue, Entry(t, b))
    /\ heroLast' = [heroLast EXCEPT ![t] = Report(b)]
    /\ UNCHANGED <<hasTagline, hasHero, origText, taglineText, fullText,
                   charIndex, typingActive, typingDone, heroObserved,
                   typeTimers, typingClocks, doneAfter>>
    /\ UNCHANGED <<globalVars, exceptTyping>>

\* The callback of lines 216-221 without the disconnect of line 219.
HeroNotifyStaysConnected ==
    /\ Loaded
    /\ heroQueue # <<>>
    /\ IF heroQueue[1].isIntersecting
          THEN /\ typeTimers' = Append(typeTimers, TypingTimer("type", StartDelay))
               /\ UNCHANGED heroObserved
               /\ sinceStart' = 0
               /\ typingStarts' = Min(typingStarts + 1, 2)
          ELSE UNCHANGED <<typeTimers, heroObserved, sinceStart, typingStarts>>
    /\ heroQueue' = <<>>
    /\ sinceReported' = IF sinceReported = NoClock /\ Intersecting(heroQueue) # {}
                           THEN 0 ELSE sinceReported
    /\ UNCHANGED <<hasTagline, hasHero, origText, taglineText, fullText,
                   charIndex, typingActive, typingDone, heroLast, sinceLastChar,
                   doneAfter>>
    /\ UNCHANGED <<globalVars, exceptTyping>>

\* The browser calls the callback of lines 216-221.
HeroNotify ==
    /\ Loaded
    /\ heroQueue # <<>>
    /\ IF heroQueue[1].isIntersecting
          THEN /\ typeTimers' = Append(typeTimers, TypingTimer("type", StartDelay))
               /\ heroObserved' = {}
               /\ sinceStart' = 0
               /\ typingStarts' = Min(typingStarts + 1, 2)
          ELSE UNCHANGED <<typeTimers, heroObserved, sinceStart, typingStarts>>
    /\ heroQueue' = <<>>
    /\ sinceReported' = IF sinceReported = NoClock /\ Intersecting(heroQueue) # {}
                           THEN 0 ELSE sinceReported
    /\ UNCHANGED <<hasTagline, hasHero, origText, taglineText, fullText,
                   charIndex, typingActive, typingDone, heroLast, sinceLastChar,
                   doneAfter>>
    /\ UNCHANGED <<globalVars, exceptTyping>>

\* type of lines 200-212, called by its timer, the i-th pending one.
TypeTimeout(i) ==
    /\ Loaded
    /\ i \in DOMAIN typeTimers
    /\ typeTimers[i] = TypingTimer("type", 0)
    /\ IF charIndex < Len(fullText)
          THEN /\ taglineText' = Append(taglineText, fullText[charIndex + 1])
               /\ charIndex' = charIndex + 1
               /\ typeTimers' = Append(Without(typeTimers, i),
                                       TypingTimer("type", TypeSpeed))
               /\ sinceLastChar' = 0
          ELSE /\ typeTimers' = Append(Without(typeTimers, i),
                                       TypingTimer("done", Dwell))
               /\ UNCHANGED <<taglineText, charIndex, sinceLastChar>>
    /\ UNCHANGED <<hasTagline, hasHero, origText, fullText, typingActive,
                   typingDone, heroObserved, heroQueue, heroLast, sinceStart,
                   sinceReported, typingStarts, doneAfter>>
    /\ UNCHANGED <<globalVars, exceptTyping>>

\* The function of lines 207-210 without its removal of typing-active.
cursorStays ==
    /\ UNCHANGED typingActive
    /\ typingDone' = TRUE

\* The function of lines 207-210.
cursorOff ==
    /\ typingActive' = FALSE
    /\ typingDone' = TRUE

\* The timer of line 207, the i-th pending one, runs out.
DwellTimeout(i) ==
    /\ Loaded
    /\ i \in DOMAIN typeTimers
    /\ typeTimers[i] = TypingTimer("done", 0)
    /\ typeTimers' = Without(typeTimers, i)
    /\ cursorOff
    /\ doneAfter' = [lastChar |-> sinceLastChar, start |-> sinceStart]
    /\ UNCHANGED <<hasTagline, hasHero, origText, taglineText, fullText,
                   charIndex, heroObserved, heroQueue, heroLast, typingClocks>>
    /\ UNCHANGED <<globalVars, exceptTyping>>

(***************************************************************************)
(* 8. BUTTON RIPPLE EFFECT                                                 *)
(***************************************************************************)
Buttons == 1..MaxButtons

RippleMarkup ==
    /\ buttons \in 0..MaxButtons
    /\ rippleListeners = {}
    /\ btnStyled = {}
    /\ ripples = [b \in Buttons |-> {}]
    /\ rippleClicks = [b \in Buttons |-> 0]
    /\ rippleEnded = [b \in Buttons |-> {}]

NoRipple == RippleMarkup /\ buttons = 0

initRipple ==
    /\ Return("initRipple")
    /\ IF ~motionOK
          THEN UNCHANGED <<rippleListeners, btnStyled>>
          ELSE /\ rippleListeners' = 1..buttons
               /\ btnStyled' = 1..buttons
    /\ UNCHANGED <<buttons, ripples, rippleClicks, rippleEnded>>
    /\ UNCHANGED exceptRipple

\* The listener of lines 243-259 with the new ripple put in the place of
\* the button's ripples instead of appended to them.
rippleClickReplaces(b, ripple) ==
    ripples' = [ripples EXCEPT ![b] = {ripple}]

\* The listener of lines 243-259: a new span.ripple is appended to the
\* button.  A ripple is named by the number of the click that made it.
rippleClick(b, ripple) ==
    ripples' = [ripples EXCEPT ![b] = @ \cup {ripple}]

\* The user clicks button b.
ButtonClick(b) ==
    /\ Loaded
    /\ b \in 1..buttons
    /\ rippleClicks[b] < MaxClicks
    /\ rippleClicks' = [rippleClicks EXCEPT ![b] = @ + 1]
    /\ IF b \in rippleListeners
          THEN rippleClick(b, rippleClicks[b] + 1)
          ELSE UNCHANGED ripples
    /\ UNCHANGED <<buttons, rippleListeners, btnStyled, rippleEnded>>
    /\ UNCHANGED <<globalVars, exceptRipple>>

\* The animation of ripple `ripple` of button b ends: the listener of
\* lines 256-258 removes that ripple.
AnimationEnd(b, ripple) ==
    /\ Loaded
    /\ b \in 1..buttons
    /\ ripple \in ripples[b]
    /\ ripples' = [ripples EXCEPT ![b] = @ \ {ripple}]
    /\ rippleEnded' = [rippleEnded EXCEPT ![b] = @ \cup {ripple}]
    /\ UNCHANGED <<buttons, rippleListeners, btnStyled, rippleClicks>>
    /\ UNCHANGED <<globalVars, exceptRipple>>

(***************************************************************************)
(* 9. CARD 3D TILT EFFECT                                                  *)
(***************************************************************************)
Cards == 1..MaxCards

TiltMarkup ==
    /\ cards \in 0..MaxCards
    /\ tiltListeners = {}
    /\ cardTransform = [c \in Cards |-> <<"none">>]
    /\ cardTransition = [c \in Cards |-> FALSE]
    /\ tiltTimers = <<>>
    /\ tiltOver = 0
    /\ sinceLeave = [c \in Cards |-> NoClock]

NoTilt == TiltMarkup /\ cards = 0

initTilt ==
    /\ Return("initTilt")
    /\ IF ~motionOK
          THEN UNCHANGED tiltListeners
          ELSE tiltListeners' = 1..cards
    /\ UNCHANGED <<cards, cardTransform, cardTransition, tiltTimers, tiltOver,
                   sinceLeave>>
    /\ UNCHANGED exceptTilt

\* The pointer's place in a card's box less 0.5, in halves: -0.5, 0, 0.5.
TiltOffsets == {0 - 1, 0, 1}

\* The pointer moves over card c, to (x, y) halves from its middle: the
\* listener of lines 274-281 sets the rotation, kept in half degrees.
TiltMouseMove(c, x, y) ==
    /\ Loaded
    /\ c \in 1..cards
    /\ tiltOver \in {0, c}
    /\ tiltOver' = c
    /\ IF c \in tiltListeners
          THEN cardTransform' = [cardTransform EXCEPT
                  ![c] = <<"rotate", x * MAX_DEG, (0 - y) * MAX_DEG>>]
          ELSE UNCHANGED cardTransform
    /\ UNCHANGED <<cards, tiltListeners, cardTransition, tiltTimers, sinceLeave>>
    /\ UNCHANGED <<globalVars, exceptTilt>>

\* The pointer leaves card c: the listener of lines 283-288.
TiltMouseLeave(c) ==
    /\ Loaded
    /\ tiltOver = c
    /\ c \in 1..cards
    /\ tiltOver' = 0
    /\ IF c \in tiltListeners
          THEN /\ Len(tiltTimers) < MaxTiltTimers
               /\ cardTransform' = [cardTransform EXCEPT ![c] = <<"none">>]
               /\ cardTransition' = [cardTransition EXCEPT ![c] = TRUE]
               /\ tiltTimers' = Append(tiltTimers, <<c, TiltSettle>>)
               /\ sinceLeave' = [sinceLeave EXCEPT ![c] = 0]
          ELSE UNCHANGED <<cardTransform, cardTransition, tiltTimers, sinceLeave>>
    /\ UNCHANGED <<cards, tiltListeners>>
    /\ UNCHANGED <<globalVars, exceptTilt>>

\* The timer of line 287, the i-th pending one, runs out.
TiltTimeout(i) ==
    /\ Loaded
    /\ i \in DOMAIN tiltTimers
    /\ tiltTimers[i][2] = 0
    /\ cardTransition' = [cardTransition EXCEPT ![tiltTimers[i][1]] = FALSE]
    /\ tiltTimers' = Without(tiltTimers, i)
    /\ UNCHANGED <<cards, tiltListeners, cardTransform, tiltOver, sinceLeave>>
    /\ UNCHANGED <<globalVars, exceptTilt>>

(***************************************************************************)
(* 10. MAGNETIC HOVER FOR SMALL BUTTONS / LINKS                            *)
(***************************************************************************)
MagPool ==
    {<<"nav", i>> : i \in 1..MaxNavLinks} \cup {<<"other", i>> : i \in 1..MaxOtherMag}

\* What .project-card__link, .footer__social-link, .navbar__link select.
MagTargets ==
    {<<"nav", i>> : i \in DOMAIN navLinks} \cup {<<"other", i>> : i \in 1..otherMag}

PointerOffsets == {0 - 10, 0, 10}

MagneticMarkup ==
    /\ otherMag \in 0..MaxOtherMag
    /\ magListeners = {}
    /\ magTransform = [t \in MagPool |-> <<"none">>]
    /\ pointer = [over |-> <<"none", 0>>, dx |-> 0, dy |-> 0]

NoMagnetic == MagneticMarkup /\ otherMag = 0

initMagnetic ==
    /\ Return("initMagnetic")
    /\ IF ~motionOK
          THEN UNCHANGED magListeners
          ELSE magListeners' = MagTargets
    /\ UNCHANGED <<otherMag, magTransform, pointer>>
    /\ UNCHANGED exceptMagnetic

\* The pointer moves over target t, to (dx, dy) from its centre.
MagMouseMove(t, dx, dy) ==
    /\ Loaded
    /\ t \in MagTargets
    /\ pointer # [over |-> t, dx |-> dx, dy |-> dy]
    /\ pointer' = [over |-> t, dx |-> dx, dy |-> dy]
    /\ IF t \in magListeners
          THEN magTransform' = [magTransform EXCEPT
                                   ![t] = <<"translate", dx * Strength10, dy * Strength10>>]
          ELSE UNCHANGED magTransform
    /\ UNCHANGED <<otherMag, magListeners>>
    /\ UNCHANGED <<globalVars, exceptMagnetic>>

\* The pointer leaves target t.
MagMouseLeave(t) ==
    /\ Loaded
    /\ t \in MagTargets
    /\ pointer.over = t
    /\ pointer' = [over |-> <<"none", 0>>, dx |-> 0, dy |-> 0]
    /\ IF t \in magListeners
          THEN magTransform' = [magTransform EXCEPT ![t] = <<"translate(0,0)">>]
          ELSE UNCHANGED magTransform
    /\ UNCHANGED <<otherMag, magListeners>>
    /\ UNCHANGED <<globalVars, exceptMagnetic>>

(***************************************************************************)
(* Time.  d ms pass, or as many as the next timer has left: a timer that   *)
(* has run out is called before more time passes.                          *)
(***************************************************************************)
TimersLeft ==
    (IF debounceTimer = NoTimer THEN {} ELSE {debounceTimer})
        \cup {typeTimers[i][2] : i \in DOMAIN typeTimers}
        \cup {tiltTimers[i][2] : i \in DOMAIN tiltTimers}

RECURSIVE MinOf(_)
MinOf(S) == LET x == CHOOSE y \in S : TRUE IN
            IF S = {x} THEN x ELSE Min(x, MinOf(S \ {x}))

\* A clock d ms later; it stops counting at `most`.
Later(clock, d, most) == IF clock = NoClock THEN NoClock ELSE Min(clock + d, most)

\* sinceReported counts as far as the longest text takes to type.
MaxReported == StartDelay + MaxText * TypeSpeed

Tick(d) ==
    /\ Loaded
    /\ 0 \notin TimersLeft
    /\ LET step == IF TimersLeft = {} THEN d ELSE Min(d, MinOf(TimersLeft)) IN
       /\ debounceTimer' = IF debounceTimer = NoTimer THEN NoTimer
                              ELSE debounceTimer - step
       /\ typeTimers' = [i \in DOMAIN typeTimers |->
                            <<typeTimers[i][1], typeTimers[i][2] - step>>]
       /\ tiltTimers' = [i \in DOMAIN tiltTimers |->
                            <<tiltTimers[i][1], tiltTimers[i][2] - step>>]
       /\ sinceStart' = Later(sinceStart, step, MaxClock)
       /\ sinceReported' = Later(sinceReported, step, MaxReported)
       /\ sinceLastChar' = Later(sinceLastChar, step, MaxClock)
       /\ sinceScroll' = Later(sinceScroll, step, DebounceWait + 1)
       /\ sinceLeave' = [c \in Cards |-> Later(sinceLeave[c], step, TiltSettle + 1)]
    /\ UNCHANGED <<hasNavbar, scrollY, navScroll, navScrolled, navbarListener,
                   lastUpdateY, burstScrolls, burstUpdates, updateAfter>>
    /\ UNCHANGED <<hasTagline, hasHero, origText, taglineText, fullText,
                   charIndex, typingActive, typingDone, heroObserved, heroQueue,
                   heroLast, typingStarts, doneAfter>>
    /\ UNCHANGED <<cards, tiltListeners, cardTransform, cardTransition, tiltOver>>
    /\ UNCHANGED <<globalVars, menuVars, anchorVars, activeNavVars, revealVars,
                   lazyVars, parallaxVars, rippleVars, magneticVars>>

(***************************************************************************)
(* The page starts with the script about to run.                           *)
(***************************************************************************)
InitGlobal ==
    /\ pc = Behaviours[1]
    /\ motionOK \in BOOLEAN
    /\ scriptError = FALSE

(***************************************************************************)
(* The script, one behaviour after the other in source order.              *)
(***************************************************************************)
Startup ==
    \/ initMobileMenu
    \/ smoothScroll
    \/ initActiveNav
    \/ initNavbarScroll
    \/ initReveal
    \/ initParallax
    \/ initTyping
    \/ initRipple
    \/ initTilt
    \/ initMagnetic
    \/ initLazyImages

(***************************************************************************)
(* The mobile menu alone: a page with the menu's elements, and the clicks  *)
(* on them.                                                                *)
(***************************************************************************)
InitMenu ==
    /\ InitGlobal
    /\ MenuMarkup
    /\ NoAnchors /\ NoActiveNav /\ NoNavbar /\ NoReveal /\ NoParallax
    /\ NoTyping /\ NoRipple /\ NoTilt /\ NoMagnetic /\ NoLazy

NextMenu ==
    \/ Startup
    \/ ToggleClick
    \/ \E l \in 1..MaxLinks : MobileLinkClick(l)

SpecMenu == InitMenu /\ [][NextMenu]_vars

(***************************************************************************)
(* The in-page anchors alone.                                              *)
(***************************************************************************)
InitAnchors ==
    /\ InitGlobal
    /\ AnchorMarkup
    /\ NoMenu /\ NoActiveNav /\ NoNavbar /\ NoReveal /\ NoParallax
    /\ NoTyping /\ NoRipple /\ NoTilt /\ NoMagnetic /\ NoLazy

NextAnchors ==
    \/ Startup
    \/ \E h \in Hrefs : AnchorClick(h)

SpecAnchors == InitAnchors /\ [][NextAnchors]_vars

(***************************************************************************)
(* The navbar alone: scroll events, the debounce timer, time.              *)
(***************************************************************************)
InitNavbar ==
    /\ InitGlobal
    /\ NavbarMarkup
    /\ NoMenu /\ NoAnchors /\ NoActiveNav /\ NoReveal /\ NoParallax
    /\ NoTyping /\ NoRipple /\ NoTilt /\ NoMagnetic /\ NoLazy

NextNavbar ==
    \/ Startup
    \/ \E y \in ScrollOffsets : Scroll(y)
    \/ DebounceTimeout
    \/ \E d \in 1..DebounceWait : Tick(d)

SpecNavbar == InitNavbar /\ [][NextNavbar]_vars

\* The script runs to its end, time passes and a timer that is due fires.
FairNavbar ==
    /\ WF_vars(Startup)
    /\ WF_vars(DebounceTimeout)
    /\ WF_vars(\E d \in 1..DebounceWait : Tick(d))

SpecNavbarFair == SpecNavbar /\ FairNavbar

(***************************************************************************)
(* The section reveal alone.                                               *)
(***************************************************************************)
InitReveal ==
    /\ InitGlobal
    /\ RevealMarkup
    /\ NoMenu /\ NoAnchors /\ NoActiveNav /\ NoNavbar /\ NoParallax
    /\ NoTyping /\ NoRipple /\ NoTilt /\ NoMagnetic /\ NoLazy

NextReveal ==
    \/ Startup
    \/ \E el \in Wrappers, b \in BOOLEAN : RevealEntry(el, b)
    \/ RevealNotify

SpecReveal == InitReveal /\ [][NextReveal]_vars

(***************************************************************************)
(* The card tilt alone: a page with cards, the pointer moving over them    *)
(* and leaving them, and time passing in quarters of the settle time.      *)
(***************************************************************************)
TiltTicks == {TiltSettle \div 4, TiltSettle}

InitTilt ==
    /\ InitGlobal
    /\ TiltMarkup
    /\ NoMenu /\ NoAnchors /\ NoActiveNav /\ NoNavbar /\ NoReveal /\ NoParallax
    /\ NoTyping /\ NoRipple /\ NoMagnetic /\ NoLazy

NextTilt ==
    \/ Startup
    \/ \E c \in Cards, x \in TiltOffsets, y \in TiltOffsets : TiltMouseMove(c, x, y)
    \/ \E c \in Cards : TiltMouseLeave(c)
    \/ \E i \in 1..MaxTiltTimers : TiltTimeout(i)
    \/ \E d \in TiltTicks : Tick(d)

SpecTilt == InitTilt /\ [][NextTilt]_vars

(***************************************************************************)
(* The active nav link alone: a page with sections and nav links, and the  *)
(* sections entering and leaving the band in the middle of the viewport.   *)
(* The page has all the sections or none, all the nav links or none, each  *)
(* link to any of the sections, and in the markup no link active or the    *)
(* first.                                                                  *)
(***************************************************************************)
InitActiveNav ==
    /\ InitGlobal
    /\ ActiveNavMarkup
    /\ sections \in {{}, SectionIds}
    /\ Len(navLinks) \in {0, MaxNavLinks}
    /\ navInitial \in {{}, {1}}
    /\ NoMenu /\ NoAnchors /\ NoNavbar /\ NoReveal /\ NoParallax
    /\ NoTyping /\ NoRipple /\ NoTilt /\ NoMagnetic /\ NoLazy

NextActiveNav ==
    \/ Startup
    \/ \E sec \in SectionIds, b \in BOOLEAN : NavEntry(sec, b)
    \/ NavNotify

SpecActiveNav == InitActiveNav /\ [][NextActiveNav]_vars

(***************************************************************************)
(* The lazy images alone.                                                  *)
(***************************************************************************)
InitLazy ==
    /\ InitGlobal
    /\ LazyMarkup
    /\ NoMenu /\ NoAnchors /\ NoActiveNav /\ NoNavbar /\ NoReveal /\ NoParallax
    /\ NoTyping /\ NoRipple /\ NoTilt /\ NoMagnetic

NextLazy ==
    \/ Startup
    \/ \E img \in Images, b \in BOOLEAN : LazyEntry(img, b)
    \/ LazyNotify

SpecLazy == InitLazy /\ [][NextLazy]_vars

(***************************************************************************)
(* The typing effect alone.  Time passes in steps of the effect's own      *)
(* delays, so that every moment at which a timer runs out is a state.      *)
(***************************************************************************)
TypingTicks == {TypeSpeed, StartDelay, Dwell}

InitTyping ==
    /\ InitGlobal
    /\ TypingMarkup
    /\ NoMenu /\ NoAnchors /\ NoActiveNav /\ NoNavbar /\ NoReveal /\ NoParallax
    /\ NoRipple /\ NoTilt /\ NoMagnetic /\ NoLazy

TypingEvents ==
    \/ \E t \in HeroTargets, b \in BOOLEAN : HeroEntry(t, b)
    \/ HeroNotify
    \/ \E i \in 1..2 : TypeTimeout(i)
    \/ \E i \in 1..2 : DwellTimeout(i)
    \/ \E d \in TypingTicks : Tick(d)

NextTyping == Startup \/ TypingEvents

SpecTyping == InitTyping /\ [][NextTyping]_vars

(***************************************************************************)
(* The four behaviours the motion preference switches off: parallax,       *)
(* typing, ripple and magnetic hover.  With reduced motion the page holds  *)
(* any combination of their targets; with motion allowed the four run      *)
(* independently of each other and the page holds the targets of one.      *)
(***************************************************************************)
TargetsOf ==
    [parallax |-> blobs > 0 \/ gradients > 0,
     typing |-> hasTagline,
     ripple |-> buttons > 0,
     magnetic |-> otherMag > 0]

InitMotion ==
    /\ InitGlobal
    /\ ParallaxMarkup /\ RippleMarkup /\ MagneticMarkup
    /\ TypingMarkup /\ hasHero = hasTagline
    /\ origText = (IF hasTagline THEN <<" ", "a">> ELSE <<>>)
    /\ NoMenu /\ NoAnchors /\ NoActiveNav /\ NoNavbar /\ NoReveal /\ NoTilt
    /\ NoLazy
    /\ motionOK => Cardinality({b \in DOMAIN TargetsOf : TargetsOf[b]}) <= 1

NextMotion ==
    \/ Startup
    \/ \E y \in ScrollOffsets : Scroll(y)
    \/ AnimationFrame
    \/ TypingEvents
    \/ \E b \in Buttons : ButtonClick(b)
    \/ \E b \in Buttons, ripple \in 1..MaxClicks : AnimationEnd(b, ripple)
    \/ \E t \in MagPool, dx \in PointerOffsets, dy \in PointerOffsets :
          MagMouseMove(t, dx, dy)
    \/ \E t \in MagPool : MagMouseLeave(t)

SpecMotion == InitMotion /\ [][NextMotion]_vars

(***************************************************************************)
(* The script alone, on pages where the targets of each behaviour are      *)
(* either all there or all missing (the toggle and the menu, the sections  *)
(* and the nav links, the blobs and the gradients each on their own).      *)
(***************************************************************************)
InitStartup ==
    /\ InitGlobal
    /\ MenuMarkup /\ mobileLinks = (IF hasMenu THEN MaxLinks ELSE 0)
    /\ ariaExpanded \in {"false", "none"}
    /\ AnchorMarkup /\ pageIds = {<<"a">>}
    /\ anchors \in {{}, {<<"#">>, <<"#", "a">>}}
    /\ ActiveNavMarkup /\ sections \in {{}, SectionIds}
    /\ navLinks \in {<<>>, <<<<"#", "a">>>>} /\ navActive = {}
    /\ NavbarMarkup /\ scrollY = ScrolledAfter + 1
    /\ RevealMarkup /\ wrappers \in {0, MaxWrappers}
    /\ ParallaxMarkup /\ blobs \in {0, MaxBlobs} /\ gradients \in {0, MaxGradients}
    /\ TypingMarkup /\ hasHero = hasTagline
    /\ origText = (IF hasTagline THEN <<"a">> ELSE <<>>)
    /\ RippleMarkup
    /\ TiltMarkup
    /\ MagneticMarkup
    /\ LazyMarkup /\ images \in {0, MaxImages}

SpecStartup == InitStartup /\ [][Startup]_vars

\* C1: whenever the last click was on a mobile nav link of a page that has the
\* toggle, the menu is closed: aria-expanded is "false", the menu is hidden
\* and the toggle does not carry is-active, whatever the state before the click.
C1_LinkClickCloses ==
    (hasToggle /\ menuHist # <<>> /\ menuHist[Len(menuHist)].ev = "link")
        => (ariaExpanded = "false" /\ menuHidden /\ ~toggleActive)

\* A link was clicked while the menu was open, after a toggle click.
C1_Witness ==
    /\ Len(menuHist) = 2
    /\ menuHist[1].ev = "toggle"
    /\ menuHist[2].ev = "link"
    /\ menuHist[2].aria = "true"
    /\ ~menuHist[2].hidden
    /\ ariaExpanded = "false"

\* C2: whenever the last two clicks were both on the toggle, aria-expanded
\* and the menu's hidden state are what they were before the first of them.
C2_ToggleTwiceRoundTrip ==
    (Len(menuHist) = 2 /\ menuHist[1].ev = "toggle" /\ menuHist[2].ev = "toggle")
        => (ariaExpanded = menuHist[1].aria /\ menuHidden = menuHist[1].hidden)

\* Two toggle clicks in a row on a page whose listener is registered: the
\* first opened the menu, the second closed it again.
C2_Witness ==
    /\ toggleListener
    /\ Len(menuHist) = 2
    /\ menuHist[1].ev = "toggle"
    /\ menuHist[2].ev = "toggle"
    /\ menuHist[1].aria = "false"
    /\ menuHist[2].aria = "true"
    /\ ~menuHist[2].hidden
    /\ menuHidden

\* C3 (as claimed): after a click on an in-page anchor, if the href's fragment
\* is the id of an element of the page, the default navigation was prevented
\* and exactly one scroll request was issued, to that element, smooth when
\* motion is allowed and instant otherwise; if the href is a bare "#" or no
\* element has the fragment as its id, the default was not prevented and no
\* scroll request was issued.
C3_AnchorClick ==
    (lastClick.href # <<>> /\ lastClick.href \in anchorListeners) =>
        LET fragment == Tail(lastClick.href) IN
        IF fragment \in pageIds
           THEN /\ lastClick.prevented
                /\ lastClick.scrolls =
                      <<[el |-> fragment,
                         behavior |-> IF motionOK THEN "smooth" ELSE "auto"]>>
           ELSE /\ ~lastClick.prevented
                /\ lastClick.scrolls = <<>>

\* C4: after every run of the navbar update, with y the scroll offset it
\* read: --nav-scroll is y/300 clamped to [0,1] (kept in 1/300: 0 for y <= 0,
\* 300 for y >= 300, and y itself, strictly between the two, for y in
\* 1..299), and navbar--scrolled is present exactly when y > 50.
C4_NavbarUpdate ==
    lastUpdateY # <<>> =>
        LET y == lastUpdateY[1] IN
        /\ y <= 0 => navScroll = 0
        /\ y >= 300 => navScroll = 300
        /\ (y > 0 /\ y < 300) => (navScroll = y /\ 0 < navScroll /\ navScroll < 300)
        /\ navScrolled <=> y > 50

\* The debounced update ran after a scroll to an offset inside the range and
\* past the threshold of the class.
C4_Witness ==
    /\ Loaded
    /\ lastUpdateY = <<299>>
    /\ scrollY = 299
    /\ navScroll = 299
    /\ navScrolled
    /\ debounceTimer = NoTimer

C6_LazyOnce ==
    \A img \in 1..images :
       /\ \A k \in DOMAIN srcAssigned[img] : srcAssigned[img][k] = Deferred(img)
       /\ Len(srcAssigned[img]) <= 1
       /\ dataSrc[img] # <<"none">> =>
             (srcAssigned[img] = <<>> /\ imgSrc[img] = <<"none">>)
       /\ dataSrc[img] = <<"none">> =>
             (imgSrc[img] = Deferred(img) /\ lazyLast[img] # "none")

\* C7: with motion allowed, when 600 + N * 42 ms have passed since
\* the hero was first reported intersecting, N the length of the tagline's
\* text in the markup, the tagline's text is the text of the markup.
C7_TypedOriginal ==
    (motionOK /\ hasTagline /\ sinceReported # NoClock
        /\ sinceReported >= 600 + Len(origText) * 42)
        => taglineText = origText

\* C8 (as claimed): typing-done is added, and typing-active removed, exactly
\* 2200 ms after the last character was appended; the two are never present
\* together and typing-active is present while characters are appended.
C8_DoneAfterDwell ==
    (motionOK /\ hasTagline) =>
        /\ ~(typingActive /\ typingDone)
        /\ charIndex < Len(fullText) => typingActive
        /\ (sinceLastChar # NoClock /\ sinceLastChar < 2200) => ~typingDone
        /\ (typingDone /\ fullText # <<>>) => doneAfter.lastChar = 2200

\* C8 (amended): once initTyping has run exactly one of the two hooks is
\* present; typing-active is present while characters are left to append;
\* typing-done replaces it in one step 2200 ms after the call of type that
\* found no character left, which is 42 ms after the last character:
\* 2242 ms after the last character was appended, and 600 + 42 * N + 2200 ms
\* after the callback set off the typing of the N characters (2800 ms when
\* there is none); typing-done is not present before that.
C8_DoneAfterLastCall ==
    (motionOK /\ hasTagline
        /\ pc \notin {"initMobileMenu", "smoothScroll", "initActiveNav",
                      "initNavbarScroll", "initReveal", "initParallax",
                      "initTyping"}) =>
        /\ typingActive # typingDone
        /\ charIndex < Len(fullText) => typingActive
        /\ (sinceLastChar # NoClock /\ sinceLastChar < 2242) => ~typingDone
        /\ (sinceStart = NoClock \/ sinceStart < 2800) => ~typingDone
        /\ typingDone =>
              /\ taglineText = fullText
              /\ doneAfter.start = 600 + 42 * Len(fullText) + 2200
              /\ fullText # <<>> => doneAfter.lastChar = 2242
              /\ fullText = <<>> => doneAfter.lastChar = NoClock

\* typing-done has replaced typing-active after a text of two characters.
C8_Witness ==
    /\ motionOK
    /\ fullText = <<"a", "b">>
    /\ taglineText = <<"a", "b">>
    /\ typingDone
    /\ ~typingActive
    /\ doneAfter.lastChar = 2242

\* C9: with reduced motion, parallax, typing, ripple and magnetic hover have
\* no listener, observer, timer or frame request, and have changed nothing:
\* the tagline's text is the text of the markup and it carries neither
\* typing-active nor typing-done, no button holds a ripple or was styled, and
\* no blob, gradient or magnetic target has an inline transform.
C9_ReducedMotion ==
    ~motionOK =>
        /\ ~parallaxListener /\ rafQueue = 0
        /\ heroObserved = {} /\ heroQueue = <<>> /\ typeTimers = <<>>
        /\ rippleListeners = {} /\ magListeners = {}
        /\ taglineText = origText /\ ~typingActive /\ ~typingDone
        /\ \A b \in Buttons : ripples[b] = {}
        /\ btnStyled = {}
        /\ \A i \in Blobs : blobTransform[i] = <<>>
        /\ \A i \in Gradients : gradTransform[i] = <<>>
        /\ \A t \in MagPool : magTransform[t] = <<"none">>

\* With reduced motion, a page with the targets of all four behaviours has
\* been scrolled, a button clicked and the pointer is over a magnetic target.
C9_Witness ==
    /\ ~motionOK
    /\ Loaded
    /\ blobs > 0 /\ gradients > 0 /\ hasTagline /\ buttons > 0 /\ otherMag > 0
    /\ scrollY = 299
    /\ rippleClicks[1] = MaxClicks
    /\ pointer.over = <<"other", 1>>
    /\ pointer.dx = 10

\* What the targets of each behaviour are missing from the page.
TargetsMissing ==
    [initMobileMenu |-> ~hasToggle \/ ~hasMenu,
     smoothScroll |-> anchors = {},
     initActiveNav |-> sections = {} \/ navLinks = <<>>,
     initNavbarScroll |-> ~hasNavbar,
     initReveal |-> wrappers = 0,
     initParallax |-> blobs = 0 /\ gradients = 0,
     initTyping |-> ~hasTagline,
     initRipple |-> buttons = 0,
     initTilt |-> cards = 0,
     initMagnetic |-> MagTargets = {},
     initLazyImages |-> images = 0]

\* C10: a behaviour whose targets are missing from the page does nothing when
\* the script runs it: the script goes on with the next behaviour, and no
\* listener, observer, timer, element or error flag has changed, whatever
\* the motion preference and the other behaviours' targets.
C10_MissingTargetsNoOp ==
    [][(pc \in DOMAIN TargetsMissing /\ TargetsMissing[pc]) =>
          /\ pc' = NextBehaviour(pc)
          /\ UNCHANGED <<motionOK, scriptError, menuVars, anchorVars, navbarVars,
                         activeNavVars, revealVars, lazyVars, parallaxVars,
                         typingVars, rippleVars, tiltVars, magneticVars>>]_vars

\* The script has run on a page without the menu and the tagline, but with
\* the toggle, the navbar and the lazy images, whose behaviours are set up.
C10_Witness ==
    /\ pc = "run"
    /\ ~scriptError
    /\ motionOK
    /\ hasToggle /\ ~hasMenu /\ ~toggleListener
    /\ ~hasTagline /\ heroObserved = {}
    /\ sections # {} /\ navLinks = <<>> /\ navObserved = {}
    /\ hasNavbar /\ navbarListener
    /\ images > 0 /\ lazyObserved # {}

\* C11: after the callback of the active-nav observer was called with a
\* batch that holds an intersecting entry, the nav links that carry is-active
\* are exactly those whose href is "#" + the id of the batch's last
\* intersecting entry, whatever was active before and however many sections
\* intersect in the batch.
C11_LastEntryWins ==
    Intersecting(navBatch) # {} =>
        LET last == CHOOSE i \in DOMAIN navBatch :
                       /\ navBatch[i].isIntersecting
                       /\ \A j \in DOMAIN navBatch :
                             j > i => ~navBatch[j].isIntersecting
        IN navActive = {k \in DOMAIN navLinks :
                           navLinks[k] = <<"#">> \o navBatch[last].target}

\* A batch with two sections intersecting has moved is-active from the first
\* link, active in the markup, to the link of the second of the two.
C11_Witness ==
    /\ navLinks = <<<<"#", "a">>, <<"#", "a", "a">>>>
    /\ navInitial = {1}
    /\ navBatch = <<Entry(<<"a">>, TRUE), Entry(<<"a", "a">>, TRUE)>>
    /\ navActive = {2}

\* C12: with motion allowed, however many scroll events are dispatched
\* between two animation frames, the parallax update runs once in the next
\* frame: no frame has run it more than once.
C12_OneUpdatePerFrame ==
    motionOK => frameUpdates <= 1

\* C13: the navbar's scroll handling is a trailing-edge debounce of 8 ms.  The
\* timer that is pending is the one set by the most recent scroll event, every
\* earlier one being cancelled: it has 8 ms less the time since that event
\* left.  A scroll-triggered update runs only when 8 ms have passed since the
\* most recent scroll event, and each burst of scroll events less than 8 ms
\* apart causes exactly one update: none before the 8 ms of quiet, one after
\* them, and no further one until the next scroll event.
C13_TrailingDebounce ==
    /\ debounceTimer # NoTimer =>
          /\ sinceScroll # NoClock
          /\ debounceTimer + sinceScroll = 8
          /\ burstUpdates = 0
    /\ updateAfter # NoClock => updateAfter >= 8
    /\ burstUpdates <= 1
    /\ burstUpdates = 1 => (debounceTimer = NoTimer /\ sinceScroll >= 8)
    /\ (sinceScroll # NoClock /\ sinceScroll < 8) => burstUpdates = 0
    /\ (sinceScroll # NoClock /\ sinceScroll > 8) => burstUpdates = 1

\* A burst of three scroll events has ended at offset 299 and was followed
\* by its one update, 8 ms after the last of them.
C13_Witness ==
    /\ burstScrolls = 3
    /\ scrollY = 299
    /\ sinceScroll = 8
    /\ burstUpdates = 1
    /\ updateAfter = 8
    /\ lastUpdateY = <<299>>
    /\ debounceTimer = NoTimer

\* C14: with motion allowed, a card's reset transition is set during the
\* 400 ms that follow each of its pointer exits and is absent otherwise:
\* before the first exit and from 400 ms after an exit to the next one;
\* and an exit has cleared the inline transform.
C14_TiltReset ==
    motionOK =>
        \A c \in 1..cards :
           /\ sinceLeave[c] = NoClock => ~cardTransition[c]
           /\ (sinceLeave[c] # NoClock /\ sinceLeave[c] < 400) => cardTransition[c]
           /\ sinceLeave[c] > 400 => ~cardTransition[c]
           /\ (sinceLeave[c] = 0 /\ tiltOver # c) => cardTransform[c] = <<"none">>

\* C15: on a page with the toggle and the menu, in every state that toggle
\* clicks and mobile-link clicks lead to from a closed menu (and from an open
\* one), aria-expanded is "true" exactly when the menu is not hidden, and
\* exactly when the toggle carries is-active.
C15_MenuConsistent ==
    (hasToggle /\ hasMenu) =>
        /\ ariaExpanded \in {"true", "false"}
        /\ (ariaExpanded = "true") <=> ~menuHidden
        /\ (ariaExpanded = "true") <=> toggleActive

\* A link click closed the menu and a toggle click has opened it again.
C15_Witness ==
    /\ Len(menuHist) = 2
    /\ menuHist[1].ev = "link"
    /\ menuHist[1].aria = "true"
    /\ menuHist[2].ev = "toggle"
    /\ menuHist[2].aria = "false"
    /\ menuHist[2].hidden
    /\ ~menuHist[2].active
    /\ ariaExpanded = "true"
    /\ ~menuHidden
    /\ toggleActive

\* C16: with motion allowed, the ripples inside a button are those of its
\* clicks whose animation has not ended: each click has appended one ripple
\* of its own, each ripple is there until its own animation ends and gone
\* after, and the number of ripples is the number of clicks less the number
\* of ripples whose animation has ended.
C16_RippleLifecycle ==
    motionOK =>
        \A b \in 1..buttons :
           /\ rippleEnded[b] \subseteq 1..rippleClicks[b]
           /\ ripples[b] = (1..rippleClicks[b]) \ rippleEnded[b]
           /\ Cardinality(ripples[b]) = rippleClicks[b] - Cardinality(rippleEnded[b])

\* Three clicks on a button: the second ripple's animation has ended, the
\* first and the third ripple are in the button together.
C16_Witness ==
    /\ motionOK
    /\ rippleClicks[1] = 3
    /\ rippleEnded[1] = {2}
    /\ ripples[1] = {1, 3}

\* C17: with motion allowed the typing is one chain.  The callback sets off
\* type at most once, at most one timer of the chain is pending, and once it
\* is set off the observer observes nothing and has no entry left; from the
\* moment initTyping has emptied the tagline its text is the first charIndex
\* characters of the captured text, and every step leaves it as it is or
\* appends the next character of the captured text to it.
C17_SingleChain ==
    /\ [](motionOK =>
            /\ typingStarts <= 1
            /\ Len(typeTimers) <= 1
            /\ typingStarts = 1 => (heroObserved = {} /\ heroQueue = <<>>)
            /\ typingStarts = 0 => (typeTimers = <<>> /\ charIndex = 0)
            /\ (hasTagline /\ pc \notin {"initMobileMenu", "smoothScroll",
                                        "initActiveNav", "initNavbarScroll",
                                        "initReveal", "initParallax",
                                        "initTyping"})
                  => (/\ charIndex <= Len(fullText)
                      /\ taglineText = SubSeq(fullText, 1, charIndex)))
    /\ [][(motionOK /\ pc # "initTyping") =>
             \/ taglineText' = taglineText
             \/ /\ Len(taglineText) < Len(fullText)
                /\ taglineText' = Append(taglineText, fullText[Len(taglineText) + 1])]_vars

\* A batch whose first entry was not intersecting started nothing; a later
\* batch started the typing, which has appended the first of two characters.
C17_Witness ==
    /\ motionOK
    /\ heroLast["hero"] = "in"
    /\ sinceReported # sinceStart
    /\ typingStarts = 1
    /\ fullText = <<"a", "b">>
    /\ taglineText = <<"a">>
    /\ typeTimers = <<TypingTimer("type", TypeSpeed)>>

\* The navbar shows the scroll offset: --nav-scroll and navbar--scrolled are
\* what update computes from scrollY.
NavbarShowsOffset ==
    /\ navScroll = (IF scrollY <= 0 THEN 0
                    ELSE IF scrollY >= 300 THEN 300 ELSE scrollY)
    /\ navScrolled = (scrollY > 50)

\* C18: on a page with the navbar, once initNavbarScroll has run and before
\* any scroll event the navbar shows the initial scroll offset; while scroll
\* events are less than 8 ms apart no update runs; and if the scroll events
\* stop at some time, the navbar comes to show the final scroll offset and
\* shows it from then on.
C18_NavbarConverges ==
    /\ [](hasNavbar =>
            /\ (navbarListener /\ sinceScroll = NoClock) =>
                  (lastUpdateY = <<scrollY>> /\ NavbarShowsOffset)
            /\ (sinceScroll # NoClock /\ sinceScroll < 8) => burstUpdates = 0)
    /\ (<>[][scrollY' = scrollY]_vars) => <>[](hasNavbar => NavbarShowsOffset)

\* During a burst of scroll events the navbar still shows the offset of
\* before the burst.
C18_Witness ==
    /\ hasNavbar
    /\ burstScrolls = 2
    /\ sinceScroll = 7
    /\ scrollY = 600
    /\ lastUpdateY = <<0>>
    /\ navScroll = 0
    /\ ~navScrolled
    /\ debounceTimer = 1

\* C19: a call of the active-nav observer's callback with a batch that holds
\* no intersecting entry leaves is-active on every nav link as it was; and as
\* long as the callback has had no intersecting entry, the links that carry
\* is-active are those of the markup.
C19_NoClearOnExit ==
    /\ [](~navActivated => navActive = navInitial)
    /\ [][(navQueue # <<>> /\ navQueue' = <<>> /\ Intersecting(navQueue) = {})
             => navActive' = navActive]_vars

\* The section whose link was activated has left the band, alone in its
\* batch, and its link is still the active one, not the markup's.
C19_Witness ==
    /\ navLinks = <<<<"#", "a">>, <<"#", "a", "a">>>>
    /\ navInitial = {1}
    /\ navActivated
    /\ navBatch = <<Entry(<<"a", "a">>, FALSE)>>
    /\ navLast[<<"a">>] = "out"
    /\ navActive = {2}

=============================================================================
